---- MODULE Spec2Model ----
(***************************************************************************)
(* A model of vncdisplay: an RFB (RFC 6143) server that shows a static     *)
(* background picture and an optional cursor.                              *)
(*                                                                         *)
(* Bytes are naturals in 0..255 and every socket write appends bytes to    *)
(* the connection's `out`.  Each connection task is cut at its socket      *)
(* reads: one action per read point, running the code up to the next read. *)
(* Socket writes are taken to complete; a transport failure is modelled at *)
(* the read points.                                                        *)
(***************************************************************************)
EXTENDS Integers, Sequences, FiniteSets, TLC

\* ------------------------------------------------------------------------
\* Bounds of the model
\* ------------------------------------------------------------------------

\* Number of connection slots of the listener.
MaxConns == 2

\* Number of client messages one connection reads after its handshake.
MaxMsgs == 4

Conns == 1..MaxConns

\* Messages read on each connection when several connections are interleaved
MaxMultiMsgs == 3

\* Width and height of the pointer pictures handed to Screen::create on its own
MaxSpriteWidth == 9
MaxSpriteHeight == 2

\* ------------------------------------------------------------------------
\* Integers of fixed width and their wire forms
\* ------------------------------------------------------------------------

RECURSIVE Pow2(_)
Pow2(n) == IF n = 0 THEN 1 ELSE 2 * Pow2(n - 1)

RECURSIVE BitOr(_, _)
BitOr(a, b) ==
    IF a = 0 THEN b
    ELSE IF b = 0 THEN a
    ELSE (IF a % 2 = 1 \/ b % 2 = 1 THEN 1 ELSE 0) + 2 * BitOr(a \div 2, b \div 2)

\* A u32 word is kept as its two 16-bit halves << hi, lo >>, so that no
\* intermediate value leaves the range of the checker's integers.
Word(hi, lo) == << hi, lo >>

\* (v as u32) << s for a v below 2^16 and s < 32: the bits shifted out of
\* the 32-bit word are dropped.
Halves(n) == Word(n \div 65536, n % 65536)

Shl32(v, s) ==
    IF s < 16 THEN Halves(v * Pow2(s))
    ELSE Word((v * Pow2(s - 16)) % 65536, 0)

Or32(a, b) == Word(BitOr(a[1], b[1]), BitOr(a[2], b[2]))

\* u8 << 1
Shl8(v) == (v * 2) % 256

U16BE(n) == << (n \div 256) % 256, n % 256 >>
U16LE(n) == << n % 256, (n \div 256) % 256 >>
WordBE(w) == U16BE(w[1]) \o U16BE(w[2])
WordLE(w) == U16LE(w[2]) \o U16LE(w[1])

\* write_u32 of a length or a code below 2^31
U32BE(n) == WordBE(Halves(n))

\* i32 as its two's complement bit pattern, and back
I32Bits(n) ==
    IF n < 0 THEN Word(65535 - ((-n - 1) \div 65536), 65535 - ((-n - 1) % 65536))
    ELSE Halves(n)
I32OfBits(w) ==
    IF w[1] >= 32768 THEN -((65535 - w[1]) * 65536 + (65535 - w[2])) - 1
    ELSE w[1] * 65536 + w[2]
I32BE(n) == WordBE(I32Bits(n))

u16_from_be_bytes(b) == b[1] * 256 + b[2]
u32_from_be_bytes(b) == b[1] * 16777216 + b[2] * 65536 + b[3] * 256 + b[4]
i32_from_be_bytes(b) ==
    I32OfBits(Word(u16_from_be_bytes(<< b[1], b[2] >>), u16_from_be_bytes(<< b[3], b[4] >>)))

BoolByte(b) == IF b THEN 1 ELSE 0

Zeros(n) == [i \in 1..n |-> 0]

RECURSIVE Flatten(_)
Flatten(ss) ==
    IF Len(ss) = 0 THEN << >>
    ELSE IF Len(ss) = 1 THEN ss[1]
    ELSE Flatten(SubSeq(ss, 1, Len(ss) \div 2))
            \o Flatten(SubSeq(ss, (Len(ss) \div 2) + 1, Len(ss)))

IsPrefix(p, s) == Len(p) <= Len(s) /\ SubSeq(s, 1, Len(p)) = p

\* ------------------------------------------------------------------------
\* rfp.rs: constants
\* ------------------------------------------------------------------------

SECURITY_TYPE_NO_AUTHENTICATION == 1
SECURITY_RESULT_OK == 0
SECURITY_RESULT_FAILED == 1

\* "Unsupported protocol version"
ERROR_REASON_PROTOCOL_VERSION_UNSUPPORTED ==
    << 85, 110, 115, 117, 112, 112, 111, 114, 116, 101, 100, 32, 112, 114,
       111, 116, 111, 99, 111, 108, 32, 118, 101, 114, 115, 105, 111, 110 >>

\* "Unsupported security type"
ERROR_REASON_SECURITY_TYPE_UNSUPPORTED ==
    << 85, 110, 115, 117, 112, 112, 111, 114, 116, 101, 100, 32, 115, 101,
       99, 117, 114, 105, 116, 121, 32, 116, 121, 112, 101 >>

\* "RFB 003.008\n", "RFB 003.007\n", "RFB 003.003\n"
VERSION_3_8 == << 82, 70, 66, 32, 48, 48, 51, 46, 48, 48, 56, 10 >>
VERSION_3_7 == << 82, 70, 66, 32, 48, 48, 51, 46, 48, 48, 55, 10 >>
VERSION_3_3 == << 82, 70, 66, 32, 48, 48, 51, 46, 48, 48, 51, 10 >>

\* ------------------------------------------------------------------------
\* rfp.rs: PixelFormat
\* ------------------------------------------------------------------------

PIXEL_FOMRAT_RGB888 ==
    [ bits_per_pixel |-> 32, depth |-> 24,
      big_endian_flag |-> FALSE, true_color_flag |-> TRUE,
      red_max |-> 255, green_max |-> 255, blue_max |-> 255,
      red_shift |-> 16, green_shift |-> 8, blue_shift |-> 0 ]

PixelFormat_encode_shifts_first(f) ==
    << f.bits_per_pixel, f.depth, BoolByte(f.big_endian_flag), BoolByte(f.true_color_flag) >>
        \o << f.red_shift, f.green_shift, f.blue_shift >>
        \o U16BE(f.red_max) \o U16BE(f.green_max) \o U16BE(f.blue_max)
        \o Zeros(3)

\* PixelFormat::encode: the 16-byte wire form, 3 bytes of zero padding last.
PixelFormat_encode(f) ==
    << f.bits_per_pixel, f.depth, BoolByte(f.big_endian_flag), BoolByte(f.true_color_flag) >>
        \o U16BE(f.red_max) \o U16BE(f.green_max) \o U16BE(f.blue_max)
        \o << f.red_shift, f.green_shift, f.blue_shift >>
        \o Zeros(3)

\* PixelFormat::read_from: parse the first 13 bytes of the reader, then
\* validate bits-per-pixel and depth.
\* rfp.rs:62-73, the fields read
ReadFields(b) ==
    [ bits_per_pixel |-> b[1], depth |-> b[2],
      big_endian_flag |-> b[3] > 0, true_color_flag |-> b[4] > 0,
      red_max |-> u16_from_be_bytes(<< b[5], b[6] >>),
      green_max |-> u16_from_be_bytes(<< b[7], b[8] >>),
      blue_max |-> u16_from_be_bytes(<< b[9], b[10] >>),
      red_shift |-> b[11], green_shift |-> b[12], blue_shift |-> b[13] ]

Validate_any_depth(format) ==
    IF format.bits_per_pixel \notin {8, 16, 32}
        THEN [ ok |-> FALSE, format |-> format ]
    ELSE [ ok |-> TRUE, format |-> format ]

\* rfp.rs:74-83, the checks on the fields read
Validate(format) ==
    IF format.bits_per_pixel \notin {8, 16, 32}
        THEN [ ok |-> FALSE, format |-> format ]
    ELSE IF format.depth > format.bits_per_pixel
        THEN [ ok |-> FALSE, format |-> format ]
    ELSE [ ok |-> TRUE, format |-> format ]

read_from(b) == Validate(ReadFields(b))

bytes_per_pixel(f) == f.bits_per_pixel \div 8

\* A pixel is << r, g, b >>.  The outcome of an encoder is "ok" with the
\* bytes written, "err" (bail!) or "panic" (arithmetic overflow check).
rgb_max(f) == << f.red_max, f.green_max, f.blue_max >>
rgb_shift(f) == << f.red_shift, f.green_shift, f.blue_shift >>

\* `u32 << u8` with a shift of 32 or more: a build with overflow checks
\* panics, a build without them masks the shift to its low 5 bits.
ShiftOverflows(f) == \E i \in 1..3 : rgb_shift(f)[i] >= 32

\* rfp.rs:135-138, one pixel packed into a 32-bit word
PackPixel(f, rgb) ==
    LET chan(i) == Shl32((rgb[i] * rgb_max(f)[i]) \div 255, rgb_shift(f)[i] % 32)
    IN  Or32(Or32(chan(1), chan(2)), chan(3))

\* rfp.rs:139-146, the word written in bpp/8 bytes
PixelBytes(f, pixel) ==
    CASE f.bits_per_pixel = 8 -> << pixel[2] % 256 >>
      [] f.bits_per_pixel = 16 /\ f.big_endian_flag -> U16BE(pixel[2])
      [] f.bits_per_pixel = 16 -> U16LE(pixel[2])
      [] f.bits_per_pixel = 32 /\ f.big_endian_flag -> WordBE(pixel)
      [] f.bits_per_pixel = 32 -> WordLE(pixel)

\* PixelFormat::encode_pixels.  `checked` tells whether the build checks
\* arithmetic overflow.
encode_pixels(f, pixels, checked) ==
    IF ~f.true_color_flag THEN [ res |-> "err", bytes |-> << >> ]
    ELSE IF pixels # << >> /\ ShiftOverflows(f) /\ checked
        THEN [ res |-> "panic", bytes |-> << >> ]
    ELSE IF pixels # << >> /\ f.bits_per_pixel \notin {8, 16, 32}
        THEN [ res |-> "err", bytes |-> << >> ]
    ELSE [ res |-> "ok",
           bytes |-> Flatten([i \in 1..Len(pixels) |-> PixelBytes(f, PackPixel(f, pixels[i]))]) ]

\* PixelFormat::encode_compressed_pixels
encode_compressed_pixels(f, pixels, checked) ==
    IF ~f.true_color_flag \/ f.bits_per_pixel # 32 \/ f.depth > 24
        THEN encode_pixels(f, pixels, checked)
    ELSE IF f.depth # 24
        THEN [ res |-> "err", bytes |-> << >> ]
    ELSE [ res |-> "ok",
           bytes |-> Flatten([i \in 1..Len(pixels) |->
                        IF f.big_endian_flag
                        THEN << pixels[i][1], pixels[i][2], pixels[i][3] >>
                        ELSE << pixels[i][3], pixels[i][2], pixels[i][1] >>]) ]

\* ------------------------------------------------------------------------
\* rfp.rs: Encoding, FrameRectangle, write_frame
\* ------------------------------------------------------------------------

Raw == [ tag |-> "Raw", n |-> 0 ]
Zrle == [ tag |-> "Zrle", n |-> 0 ]
Cursor == [ tag |-> "Cursor", n |-> 0 ]
Other(n) == [ tag |-> "Other", n |-> n ]

\* A variant without the arm of the Cursor pseudo-encoding
Encoding_from_no_cursor(value) ==
    CASE value = 0 -> Raw
      [] value = 16 -> Zrle
      [] OTHER -> Other(value)

\* impl From<i32> for Encoding
Encoding_from(value) ==
    CASE value = 0 -> Raw
      [] value = 16 -> Zrle
      [] value = -239 -> Cursor
      [] OTHER -> Other(value)

\* A variant that gives the Cursor pseudo-encoding the code 239
Encoding_into_unsigned(val) ==
    CASE val.tag = "Raw" -> 0
      [] val.tag = "Zrle" -> 16
      [] val.tag = "Cursor" -> 239
      [] val.tag = "Other" -> val.n

\* impl From<Encoding> for i32
Encoding_into(val) ==
    CASE val.tag = "Raw" -> 0
      [] val.tag = "Zrle" -> 16
      [] val.tag = "Cursor" -> -239
      [] val.tag = "Other" -> val.n

new_raw_frame(size, buf) ==
    [ position |-> << 0, 0 >>, encoding |-> Raw, size |-> size, buf |-> buf ]

new_zrle_frame(size, buf) ==
    [ position |-> << 0, 0 >>, encoding |-> Zrle, size |-> size, buf |-> buf ]

new_cursor(size, buf) ==
    [ position |-> << size[1] \div 2, size[2] \div 2 >>, size |-> size,
      encoding |-> Cursor, buf |-> buf ]

\* A variant that writes a ZRLE rectangle without its length
RectBytes_no_length(rect) ==
    U16BE(rect.position[1]) \o U16BE(rect.position[2])
        \o U16BE(rect.size[1]) \o U16BE(rect.size[2])
        \o I32BE(Encoding_into(rect.encoding))
        \o rect.buf

\* rfp.rs:412-421, the bytes of one rectangle
RectBytes(rect) ==
    U16BE(rect.position[1]) \o U16BE(rect.position[2])
        \o U16BE(rect.size[1]) \o U16BE(rect.size[2])
        \o I32BE(Encoding_into(rect.encoding))
        \o (IF rect.encoding = Zrle THEN U32BE(Len(rect.buf)) ELSE << >>)
        \o rect.buf

\* write_frame: the bytes of one FramebufferUpdate
write_frame(rectangles) ==
    U16BE(0) \o U16BE(Len(rectangles))
        \o Flatten([i \in 1..Len(rectangles) |-> RectBytes(rectangles[i])])

\* ------------------------------------------------------------------------
\* flate2::write::ZlibEncoder<Vec<u8>> as the code uses it.  The compressor
\* is one zlib stream: a 2-byte header when it first produces output, then
\* one deflate block per flush (kept as a stored block, the data uncompressed)
\* closed by the empty stored block of a sync flush.
\* ------------------------------------------------------------------------

ZLIB_HEADER == << 120, 156 >>

StoredBlock(data) ==
    << 0 >> \o U16LE(Len(data)) \o U16LE(65535 - Len(data)) \o data

\* id tells the encoders of one connection apart: the n-th encoder made on
\* the connection has id n.
NoEncoder ==
    [ some |-> FALSE, id |-> 0, started |-> FALSE, pending |-> << >>, inner |-> << >> ]

\* ZlibEncoder::new(Vec::new(), Default::default())
ZlibEncoder_new(id) ==
    [ some |-> TRUE, id |-> id, started |-> FALSE, pending |-> << >>, inner |-> << >> ]

\* encoder.write_all(&buf)
Zlib_write_all(encoder, buf) == [ encoder EXCEPT !.pending = @ \o buf ]

\* encoder.flush()
Zlib_flush(encoder) ==
    [ encoder EXCEPT
        !.inner = @ \o (IF encoder.started THEN << >> ELSE ZLIB_HEADER)
                    \o (IF encoder.pending = << >> THEN << >> ELSE StoredBlock(encoder.pending))
                    \o StoredBlock(<< >>),
        !.pending = << >>,
        !.started = TRUE ]

\* A zlib decoder for the streams above: the header, then stored blocks to
\* the end of the input.  ok is FALSE when the input is not one such stream.
RECURSIVE InflateBlocks(_, _)
InflateBlocks(s, acc) ==
    IF s = << >> THEN [ ok |-> TRUE, data |-> acc ]
    ELSE IF Len(s) < 5 \/ s[1] # 0 THEN [ ok |-> FALSE, data |-> acc ]
    ELSE LET n == s[2] + 256 * s[3]
             c == s[4] + 256 * s[5]
         IN  IF n + c # 65535 \/ Len(s) < 5 + n THEN [ ok |-> FALSE, data |-> acc ]
             ELSE InflateBlocks(SubSeq(s, 6 + n, Len(s)), acc \o SubSeq(s, 6, 5 + n))

Inflate(s) ==
    IF ~IsPrefix(ZLIB_HEADER, s) THEN [ ok |-> FALSE, data |-> << >> ]
    ELSE InflateBlocks(SubSeq(s, 3, Len(s)), << >>)

\* ------------------------------------------------------------------------
\* screen.rs: Screen
\* ------------------------------------------------------------------------

ZRLE_TILE_SIZE == 64

div_ceil(a, b) == (a + b - 1) \div b
Min(a, b) == IF a < b THEN a ELSE b

\* An image is [ width, height, pixels ], pixels in row-major order; a
\* background pixel is << r, g, b >>, a pointer picture pixel << r, g, b, a >>.
NoImage == [ width |-> 0, height |-> 0, pixels |-> << >> ]

\* screen.rs:56-67, the transparency bits of one row of the pointer picture
RECURSIVE RowMask(_, _, _, _)
RowMask(row, i, mask, acc) ==
    IF i >= Len(row)
        THEN (IF Len(row) % 8 > 0 THEN Append(acc, mask) ELSE acc)
    ELSE LET m == BitOr(Shl8(mask), IF row[i + 1][4] > 128 THEN 1 ELSE 0)
         IN  IF i % 8 = 7 THEN RowMask(row, i + 1, 0, Append(acc, m))
             ELSE RowMask(row, i + 1, m, acc)

ImageRow(img, y) == SubSeq(img.pixels, y * img.width + 1, (y + 1) * img.width)

\* screen.rs:52-73
PointerBitmask(rgba) ==
    Flatten([y \in 1..rgba.height |-> RowMask(ImageRow(rgba, y - 1), 0, 0, << >>)])

\* image.to_rgb8()
to_rgb8(rgba) ==
    [ width |-> rgba.width, height |-> rgba.height,
      pixels |-> [i \in 1..Len(rgba.pixels) |->
                    << rgba.pixels[i][1], rgba.pixels[i][2], rgba.pixels[i][3] >>] ]

\* Screen::create, for pictures that decode.  ok is FALSE where create fails.
Screen_create(background, has_pointer, pointer) ==
    [ ok |-> background.width <= 65535 /\ background.height <= 65535
             /\ (has_pointer => pointer.width <= 65535 /\ pointer.height <= 65535),
      background |-> background,
      dimensions |-> << background.width, background.height >>,
      format |-> PIXEL_FOMRAT_RGB888,
      pointer |-> IF has_pointer
                  THEN [ some |-> TRUE, image |-> to_rgb8(pointer),
                         bitmask |-> PointerBitmask(pointer) ]
                  ELSE [ some |-> FALSE, image |-> NoImage, bitmask |-> << >> ] ]

\* A variant that installs a format whatever its true-colour flag
set_pixel_format_any(old, format) == [ ok |-> TRUE, format |-> format ]

\* Screen::set_pixel_format: the format installed, or the failure
set_pixel_format(old, format) ==
    IF ~format.true_color_flag
        THEN [ ok |-> FALSE, format |-> old ]
    ELSE [ ok |-> TRUE, format |-> format ]

\* Screen::pointer_size
pointer_size(scr) ==
    IF scr.pointer.some
        THEN << scr.pointer.image.width % 65536, scr.pointer.image.height % 65536 >>
    ELSE << 0, 0 >>

\* Screen::draw_cursor: None when there is no pointer or the pixels do not encode
\* screen.rs:105-109, e: what encode_pixels made of the pointer's pixels
CursorBytes(e, bitmask) ==
    IF e.res = "ok" THEN [ res |-> "ok", bytes |-> e.bytes \o bitmask ]
    ELSE IF e.res = "panic" THEN e
    ELSE [ res |-> "none", bytes |-> << >> ]

draw_cursor(scr, format, checked) ==
    IF ~scr.pointer.some THEN [ res |-> "none", bytes |-> << >> ]
    ELSE CursorBytes(encode_pixels(format, scr.pointer.image.pixels, checked),
                     scr.pointer.bitmask)

\* A variant that packs the background under the default format
draw_raw_rgb888(scr, format, checked) ==
    encode_pixels(PIXEL_FOMRAT_RGB888, scr.background.pixels, checked)

\* Screen::draw_raw
draw_raw(scr, format, checked) == encode_pixels(format, scr.background.pixels, checked)

\* screen.rs:126-131, the tiles of the background in the order drawn:
\* << x, y, width, height >>
TileAt(scr, tile_x, tile_y) ==
    LET x == tile_x * ZRLE_TILE_SIZE
        y == tile_y * ZRLE_TILE_SIZE
    IN  << x, y, Min(ZRLE_TILE_SIZE, scr.dimensions[1] - x),
                 Min(ZRLE_TILE_SIZE, scr.dimensions[2] - y) >>

\* A variant that walks the tiles from top to bottom, then from left to right
Tiles_column_major(scr) ==
    LET nx == div_ceil(scr.dimensions[1], ZRLE_TILE_SIZE)
        ny == div_ceil(scr.dimensions[2], ZRLE_TILE_SIZE)
    IN  [k \in 1..(nx * ny) |-> TileAt(scr, (k - 1) \div ny, (k - 1) % ny)]

Tiles(scr) ==
    LET nx == div_ceil(scr.dimensions[1], ZRLE_TILE_SIZE)
        ny == div_ceil(scr.dimensions[2], ZRLE_TILE_SIZE)
    IN  [k \in 1..(nx * ny) |-> TileAt(scr, (k - 1) % nx, (k - 1) \div nx)]

\* background.view(x, y, width, height).pixels()
TilePixels(img, t) ==
    [k \in 1..(t[3] * t[4]) |->
        img.pixels[(t[2] + ((k - 1) \div t[3])) * img.width + t[1] + ((k - 1) % t[3]) + 1]]

\* screen.rs:133-138, the tiles written to the encoder one after the other;
\* the first that does not encode ends the drawing
RECURSIVE DrawTiles(_, _, _, _, _)
DrawTile(scr, format, checked, tiles, encoder, e) ==
    IF e.res # "ok" THEN [ res |-> e.res, encoder |-> encoder ]
    ELSE DrawTiles(scr, format, checked, Tail(tiles),
                   Zlib_write_all(encoder, << 0 >> \o e.bytes))

DrawTiles(scr, format, checked, tiles, encoder) ==
    IF tiles = << >> THEN [ res |-> "ok", encoder |-> encoder ]
    ELSE DrawTile(scr, format, checked, tiles, encoder,
                  encode_compressed_pixels(format, TilePixels(scr.background, Head(tiles)),
                                           checked))

\* screen.rs:142-144, mem::take(encoder.get_mut()) on the flushed encoder
TakeOutput(flushed) ==
    [ res |-> "ok", bytes |-> flushed.inner, encoder |-> [ flushed EXCEPT !.inner = << >> ] ]

\* screen.rs:142-144, d: what the loop over the tiles left
FlushTiles(d) ==
    IF d.res # "ok" THEN [ res |-> d.res, bytes |-> << >>, encoder |-> d.encoder ]
    ELSE TakeOutput(Zlib_flush(d.encoder))

\* Screen::draw_zrle: the bytes returned and the encoder as it is left
draw_zrle(scr, format, checked, encoder) ==
    FlushTiles(DrawTiles(scr, format, checked, Tiles(scr), encoder))

\* ------------------------------------------------------------------------
\* rfp.rs: ClientMessage and read_message
\* ------------------------------------------------------------------------

NoMsg ==
    [ kind |-> "None", format |-> PIXEL_FOMRAT_RGB888, encodings |-> << >>,
      incremental |-> FALSE, position |-> << 0, 0 >>, size |-> << 0, 0 >> ]

SetPixelFormat(format) == [ NoMsg EXCEPT !.kind = "SetPixelFormat", !.format = format ]
SetEncodings(encodings) == [ NoMsg EXCEPT !.kind = "SetEncodings", !.encodings = encodings ]
FramebufferUpdateRequest(incremental, position, size) ==
    [ NoMsg EXCEPT !.kind = "FramebufferUpdateRequest", !.incremental = incremental,
                   !.position = position, !.size = size ]
KeyEvent == [ NoMsg EXCEPT !.kind = "KeyEvent" ]
PointerEvent == [ NoMsg EXCEPT !.kind = "PointerEvent" ]
ClientCutText == [ NoMsg EXCEPT !.kind = "ClientCutText" ]

ReadErr(why) == [ res |-> "err", err |-> why, msg |-> NoMsg ]
ReadMsg(m) == [ res |-> "msg", err |-> "", msg |-> m ]

\* rfp.rs:345-346, p: what PixelFormat::read_from returned
ParsedPixelFormat(p) ==
    IF p.ok THEN ReadMsg(SetPixelFormat(p.format)) ELSE ReadErr("pixel format")

\* rfp.rs:354-359, the encodings in the len * 4 bytes after the count
ParsedEncodings(buf, len) ==
    IF Len(buf) < 3 + len * 4 THEN ReadErr("eof")
    ELSE ReadMsg(SetEncodings(
            [i \in 1..len |->
                Encoding_from(i32_from_be_bytes(SubSeq(buf, 4 * i, 4 * i + 3)))]))

\* rfp.rs:393-396, the text of a ClientCutText is read and dropped
ParsedCutText(buf, len) ==
    IF Len(buf) < 3 + 4 + len THEN ReadErr("eof") ELSE ReadMsg(ClientCutText)

\* rfp.rs:340-398, the message of tag `tag`; buf: the bytes that follow the
\* tag before the stream ends
ReadBody(tag, buf) ==
    CASE tag = 0 ->
            IF Len(buf) < 3 + 16 THEN ReadErr("eof")
            ELSE ParsedPixelFormat(read_from(SubSeq(buf, 4, 19)))
      [] tag = 2 ->
            IF Len(buf) < 3 THEN ReadErr("eof")
            ELSE ParsedEncodings(buf, u16_from_be_bytes(SubSeq(buf, 2, 3)))
      [] tag = 3 ->
            IF Len(buf) < 1 + 2 + 2 + 2 + 2 THEN ReadErr("eof")
            ELSE ReadMsg(FramebufferUpdateRequest(
                            buf[1] > 0,
                            << u16_from_be_bytes(<< buf[2], buf[3] >>),
                               u16_from_be_bytes(<< buf[4], buf[5] >>) >>,
                            << u16_from_be_bytes(<< buf[6], buf[7] >>),
                               u16_from_be_bytes(<< buf[8], buf[9] >>) >>))
      [] tag = 4 ->
            IF Len(buf) < 1 + 2 + 4 THEN ReadErr("eof") ELSE ReadMsg(KeyEvent)
      [] tag = 5 ->
            IF Len(buf) < 1 + 2 + 2 THEN ReadErr("eof") ELSE ReadMsg(PointerEvent)
      [] tag = 6 ->
            IF Len(buf) < 3 + 4 THEN ReadErr("eof")
            ELSE ParsedCutText(buf, u32_from_be_bytes(SubSeq(buf, 4, 7)))
      [] OTHER -> ReadErr("unknown message")

\* A variant that takes the end of the stream right after the tag for a
\* clean end
read_message_lenient(s) ==
    IF Len(s) <= 1 THEN [ res |-> "none", err |-> "", msg |-> NoMsg ]
    ELSE ReadBody(Head(s), Tail(s))

\* read_message on a stream that holds the bytes s and then ends: res is
\* "none" (Ok(None)), "msg" (Ok(Some(msg))) or "err" with the reason.
read_message(s) ==
    IF s = << >> THEN [ res |-> "none", err |-> "", msg |-> NoMsg ]
    ELSE ReadBody(Head(s), Tail(s))

\* ------------------------------------------------------------------------
\* main.rs: handle_client, the arms of the message loop
\* ------------------------------------------------------------------------

Contains(seq, x) == \E i \in 1..Len(seq) : seq[i] = x

\* main.rs:68-71; made counts the encoders made on the connection so far
SetEncodings_zlib(zlib, encodings, made) ==
    IF Contains(encodings, Zrle) THEN ZlibEncoder_new(made + 1) ELSE zlib

\* main.rs:72-74
SetEncodings_pointer(pointer_supported, encodings) ==
    IF Contains(encodings, Cursor) THEN TRUE ELSE pointer_supported

\* main.rs:82, d: what draw_zrle returned
ZrleRect(scr, d) ==
    [ res |-> d.res, zlib |-> d.encoder, rect |-> new_zrle_frame(scr.dimensions, d.bytes) ]

\* main.rs:84, d: what draw_raw returned
RawRect(scr, zlib, d) ==
    [ res |-> d.res, zlib |-> zlib, rect |-> new_raw_frame(scr.dimensions, d.bytes) ]

\* main.rs:81-85, the screen rectangle
ScreenRect(scr, format, zlib, checked) ==
    IF zlib.some THEN ZrleRect(scr, draw_zrle(scr, format, checked, zlib))
    ELSE RawRect(scr, zlib, draw_raw(scr, format, checked))

\* A variant that hands the cursor to write_frame first
FrameRects_cursor_first(scr, rect, pointer, pointer_supported) ==
    IF pointer.res = "ok" /\ pointer_supported
        THEN << new_cursor(pointer_size(scr), pointer.bytes), rect >>
    ELSE << rect >>

\* main.rs:86-91, the rectangles handed to write_frame
FrameRects(scr, rect, pointer, pointer_supported) ==
    IF pointer.res = "ok" /\ pointer_supported
        THEN << rect, new_cursor(pointer_size(scr), pointer.bytes) >>
    ELSE << rect >>

\* main.rs:78-91, a FramebufferUpdateRequest: res is "skip" (incremental),
\* "ok" with the rectangles written, "err" or "panic".
\* main.rs:81-91, r: the screen rectangle, pointer: what draw_cursor returned
Frame(scr, r, pointer, pointer_supported) ==
    IF r.res # "ok" THEN [ res |-> r.res, zlib |-> r.zlib, rects |-> << >> ]
    ELSE IF pointer.res = "panic"
        THEN [ res |-> "panic", zlib |-> r.zlib, rects |-> << >> ]
    ELSE [ res |-> "ok", zlib |-> r.zlib,
           rects |-> FrameRects(scr, r.rect, pointer, pointer_supported) ]

\* A variant that renders whatever the request's incremental flag
Render_always(scr, format, zlib, pointer_supported, incremental, checked) ==
    Frame(scr, ScreenRect(scr, format, zlib, checked),
          draw_cursor(scr, format, checked), pointer_supported)

Render(scr, format, zlib, pointer_supported, incremental, checked) ==
    IF incremental THEN [ res |-> "skip", zlib |-> zlib, rects |-> << >> ]
    ELSE Frame(scr, ScreenRect(scr, format, zlib, checked),
               draw_cursor(scr, format, checked), pointer_supported)

\* ------------------------------------------------------------------------
\* The environment: the pictures given on the command line and what
\* clients send
\* ------------------------------------------------------------------------

\* The background picture, 2 x 1
BackgroundPicture ==
    [ width |-> 2, height |-> 1, pixels |-> << << 255, 128, 0 >>, << 16, 32, 48 >> >> ]

\* The pointer picture, 2 x 1, its second pixel transparent
PointerPicture ==
    [ width |-> 2, height |-> 1,
      pixels |-> << << 255, 255, 255, 255 >>, << 1, 2, 3, 0 >> >> ]

\* --name, by default "VNC Display"
DesktopName == << 86, 78, 67, 32, 68, 105, 115, 112, 108, 97, 121 >>

\* "RFB 002.000\n"
VERSION_2_0 == << 82, 70, 66, 32, 48, 48, 50, 46, 48, 48, 48, 10 >>

ClientVersions == { VERSION_3_3, VERSION_3_7, VERSION_3_8, VERSION_2_0 }

\* None, VNC Authentication
ClientSecurityTypes == { 1, 2 }

RGB888_BE == [ PIXEL_FOMRAT_RGB888 EXCEPT !.big_endian_flag = TRUE ]

RGB565 ==
    [ bits_per_pixel |-> 16, depth |-> 16,
      big_endian_flag |-> FALSE, true_color_flag |-> TRUE,
      red_max |-> 31, green_max |-> 63, blue_max |-> 31,
      red_shift |-> 11, green_shift |-> 5, blue_shift |-> 0 ]

\* 32 bits per pixel, depth 20: no CPIXEL form in encode_compressed_pixels
RGB_DEPTH20 == [ PIXEL_FOMRAT_RGB888 EXCEPT !.depth = 20 ]

\* a colour map instead of true colour
COLOUR_MAP == [ PIXEL_FOMRAT_RGB888 EXCEPT !.bits_per_pixel = 8, !.depth = 8,
                                           !.true_color_flag = FALSE ]

\* rejected by read_from
BPP24 == [ PIXEL_FOMRAT_RGB888 EXCEPT !.bits_per_pixel = 24 ]

\* a red shift of 32 in a 16-bit format
RED_SHIFT32 == [ RGB565 EXCEPT !.red_shift = 32 ]

ClientFormats == { RGB888_BE, RGB565, RGB_DEPTH20, COLOUR_MAP, BPP24, RED_SHIFT32 }

\* 5 is Hextile, an encoding the server does not know
ClientEncodings == { << 0 >>, << 16 >>, << -239, 0 >>, << 16, 5, -239 >> }

\* What a client puts on the wire for one message (RFC 6143, section 7.5)
WireSetPixelFormat(f) == << 0, 0, 0, 0 >> \o PixelFormat_encode(f)

WireSetEncodings(codes) ==
    << 2, 0 >> \o U16BE(Len(codes)) \o Flatten([i \in 1..Len(codes) |-> I32BE(codes[i])])

WireFramebufferUpdateRequest(incremental, scr) ==
    << 3, incremental >> \o U16BE(0) \o U16BE(0)
        \o U16BE(scr.dimensions[1]) \o U16BE(scr.dimensions[2])

WireKeyEvent == << 4, 1, 0, 0 >> \o U32BE(97)
WirePointerEvent == << 5, 1 >> \o U16BE(1) \o U16BE(0)
WireClientCutText == << 6, 0, 0, 0 >> \o U32BE(2) \o << 104, 105 >>

\* 1 (FixColourMapEntries) and 7 are no message the server reads
ClientWires(scr) ==
    { WireSetPixelFormat(f) : f \in ClientFormats }
        \cup { WireSetEncodings(codes) : codes \in ClientEncodings }
        \cup { WireFramebufferUpdateRequest(i, scr) : i \in {0, 1} }
        \cup { WireKeyEvent, WirePointerEvent, WireClientCutText, << 1 >>, << 7 >> }

\* ------------------------------------------------------------------------
\* State
\* ------------------------------------------------------------------------

VARIABLES
    listener,   \* main: "start", "listening" or "exited" (main has returned)
    screen,     \* the Screen made at startup; each task works on a clone of it
    conn,       \* the connection tasks, by slot
    call        \* a function of the program applied on its own: the
                \* function, its argument and what it returned

\* No function has been applied on its own
NoCall == [ arg |-> << >>, op |-> "none", ret |-> << >> ]

vars == << listener, screen, conn, call >>

\* A connection task.  pc is where the task stands: "idle" (slot unused),
\* "spawned", the read it waits in, "dispatch" (a message read, its arm of
\* the match not yet run) or "done".  format is screen.format of the task's
\* clone of the Screen; msg is the message read last; handshaken tells that
\* rfp::handshake has returned Ok.
\* The other fields record what the task has written and read:
\*   out       every byte written to the socket
\*   frames    the FramebufferUpdates written: the rectangles, the number
\*             (in read order) of the message answered and the id of the
\*             encoder used (0: none)
\*   reads     the reads of the handshake, in order
\*   nread     the number of read_message calls that consumed input
\*   reqs      the numbers of the non-incremental FramebufferUpdateRequests
\*   in_tag, in_eof   the tag byte of the last input of read_message (-1: none)
\*             and where its stream ended: "boundary" (before the tag),
\*             "inside" (after the tag, before the end of the message) or ""
\*   encoders  the number of ZlibEncoders made
NewConn ==
    [ pc |-> "idle", result |-> "", err |-> "",
      version |-> "", secuirty_type |-> 0,
      format |-> PIXEL_FOMRAT_RGB888,
      zlib |-> NoEncoder, pointer_supported |-> FALSE,
      msg |-> NoMsg,
      handshaken |-> FALSE,
      out |-> << >>, frames |-> << >>, reads |-> << >>,
      nread |-> 0, reqs |-> << >>, in_tag |-> -1, in_eof |-> "", encoders |-> 0,
      encodings |-> << >> ]

Fail(cr, why) == [ cr EXCEPT !.pc = "done", !.result = "err", !.err = why, !.msg = NoMsg ]

Init ==
    /\ listener = "start"
    /\ \E has_pointer \in BOOLEAN :
         screen = Screen_create(BackgroundPicture, has_pointer, PointerPicture)
    /\ conn = [c \in Conns |-> NewConn]
    /\ call = NoCall

\* ------------------------------------------------------------------------
\* main.rs: main
\* ------------------------------------------------------------------------

\* main.rs:23, the bind succeeds
Bind ==
    /\ listener = "start"
    /\ listener' = "listening"
    /\ UNCHANGED << screen, conn, call >>

\* main.rs:23, the bind fails and main returns the error
BindFail ==
    /\ listener = "start"
    /\ listener' = "exited"
    /\ UNCHANGED << screen, conn, call >>

\* A variant in which a task works on the Screen of the task accepted before
\* it instead of a clone of main's
Accept_shared(c) ==
    /\ listener = "listening"
    /\ conn[c].pc = "idle"
    /\ \A d \in Conns : d < c => conn[d].pc # "idle"
    /\ conn' = [conn EXCEPT ![c] =
                  [ @ EXCEPT !.pc = "spawned",
                             !.format = IF c > 1 THEN conn[c - 1].format ELSE screen.format ]]
    /\ UNCHANGED << listener, screen, call >>

\* main.rs:25-42, a connection is accepted and its task spawned on slot c
\* with its clone of the Screen (main.rs:35)
Accept(c) ==
    /\ listener = "listening"
    /\ conn[c].pc = "idle"
    /\ \A d \in Conns : d < c => conn[d].pc # "idle"
    /\ conn' = [conn EXCEPT ![c] = [ @ EXCEPT !.pc = "spawned", !.format = screen.format ]]
    /\ UNCHANGED << listener, screen, call >>

\* main.rs:26-31, peer_addr fails: the stream is dropped and the loop goes on
AcceptPeerAddrFail ==
    /\ listener = "listening"
    /\ UNCHANGED << listener, screen, conn, call >>

\* main.rs:25, accept fails: `?` returns the error from main, and the
\* runtime, dropped with main, cancels every task at the point where it waits
AcceptFail ==
    /\ listener = "listening"
    /\ listener' = "exited"
    /\ conn' = [c \in Conns |->
                  IF conn[c].pc \in {"idle", "done"} THEN conn[c]
                  ELSE [ conn[c] EXCEPT !.pc = "done", !.result = "cancelled" ]]
    /\ UNCHANGED << screen, call >>

\* ------------------------------------------------------------------------
\* rfp.rs: handshake, cut at its reads
\* ------------------------------------------------------------------------

\* rfp.rs:252-256
RfpVersionOf(buf) ==
    CASE buf = VERSION_3_8 -> "V3_8"
      [] buf = VERSION_3_7 -> "V3_7"
      [] buf = VERSION_3_3 -> "V3_3"
      [] OTHER -> "unknown"

\* A variant that leaves the length of the reason out
VersionFailure_no_length == << 0 >> \o ERROR_REASON_PROTOCOL_VERSION_UNSUPPORTED

\* rfp.rs:257-268, what is written to a client of an unknown version
VersionFailure ==
    << 0 >> \o U32BE(Len(ERROR_REASON_PROTOCOL_VERSION_UNSUPPORTED))
        \o ERROR_REASON_PROTOCOL_VERSION_UNSUPPORTED

\* rfp.rs:275-287, what is written before the security type is known
SecurityOffer(version) ==
    IF version = "V3_3" THEN U32BE(SECURITY_TYPE_NO_AUTHENTICATION)
    ELSE << 1, SECURITY_TYPE_NO_AUTHENTICATION >>

\* A variant that sends the SecurityResult to v3.7 clients as well
SecurityResult_v37(version, secuirty_type) ==
    IF secuirty_type = SECURITY_TYPE_NO_AUTHENTICATION
        THEN [ bytes |-> U32BE(SECURITY_RESULT_OK), bail |-> FALSE ]
    ELSE [ bytes |-> U32BE(SECURITY_RESULT_FAILED), bail |-> version = "V3_8" ]

\* rfp.rs:288-314, the SecurityResult of a v3.7 or v3.8 client: the bytes
\* written and whether the handshake goes on
SecurityResult(version, secuirty_type) ==
    CASE version = "V3_7" /\ secuirty_type = SECURITY_TYPE_NO_AUTHENTICATION ->
            [ bytes |-> << >>, bail |-> FALSE ]
      [] version = "V3_8" /\ secuirty_type = SECURITY_TYPE_NO_AUTHENTICATION ->
            [ bytes |-> U32BE(SECURITY_RESULT_OK), bail |-> FALSE ]
      [] OTHER ->
            IF version = "V3_8"
            THEN [ bytes |-> U32BE(SECURITY_RESULT_FAILED)
                               \o U32BE(Len(ERROR_REASON_SECURITY_TYPE_UNSUPPORTED))
                               \o ERROR_REASON_SECURITY_TYPE_UNSUPPORTED,
                   bail |-> TRUE ]
            ELSE [ bytes |-> U32BE(SECURITY_RESULT_FAILED), bail |-> FALSE ]

\* rfp.rs:322-329
ServerInit(screen_dimensions, name) ==
    U16BE(screen_dimensions[1]) \o U16BE(screen_dimensions[2])
        \o PixelFormat_encode(PIXEL_FOMRAT_RGB888)
        \o U32BE(Len(name)) \o name

\* rfp.rs:243-246, the task starts: the server's version goes out
HandshakeStart(c) ==
    /\ conn[c].pc = "spawned"
    /\ conn' = [conn EXCEPT ![c] = [ @ EXCEPT !.pc = "read_version",
                                              !.out = @ \o VERSION_3_8 ]]
    /\ UNCHANGED << listener, screen, call >>

\* rfp.rs:252-287, after the client's 12 bytes are read
AfterVersion(cr, version) ==
    IF version = "unknown"
        THEN Fail([ cr EXCEPT !.out = @ \o VersionFailure ], "unknown version")
    ELSE [ cr EXCEPT !.version = version,
                     !.out = @ \o SecurityOffer(version),
                     !.secuirty_type = IF version = "V3_3"
                                       THEN SECURITY_TYPE_NO_AUTHENTICATION ELSE @,
                     !.pc = IF version = "V3_3" THEN "read_client_init"
                            ELSE "read_security_type" ]

\* rfp.rs:247-287, the client's 12 bytes arrive; eof: the stream ends first
ReadVersion(c) ==
    /\ conn[c].pc = "read_version"
    /\ \E buf \in ClientVersions, eof \in BOOLEAN :
         conn' = [conn EXCEPT ![c] =
            IF eof THEN Fail([ @ EXCEPT !.reads = Append(@, "version") ], "read version")
            ELSE AfterVersion([ @ EXCEPT !.reads = Append(@, "version") ], RfpVersionOf(buf))]
    /\ UNCHANGED << listener, screen, call >>

\* rfp.rs:288-314, after the security type is read; r: the SecurityResult
AfterSecurityType(cr, secuirty_type, r) ==
    IF r.bail
        THEN Fail([ cr EXCEPT !.secuirty_type = secuirty_type, !.out = @ \o r.bytes ],
                  "security type")
    ELSE [ cr EXCEPT !.secuirty_type = secuirty_type, !.out = @ \o r.bytes,
                     !.pc = "read_client_init" ]

\* rfp.rs:286-314, the client's choice of security type arrives
ReadSecurityType(c) ==
    /\ conn[c].pc = "read_security_type"
    /\ \E secuirty_type \in ClientSecurityTypes, eof \in BOOLEAN :
         conn' = [conn EXCEPT ![c] =
            IF eof
                THEN Fail([ @ EXCEPT !.reads = Append(@, "security_type") ],
                          "read security type")
            ELSE AfterSecurityType([ @ EXCEPT !.reads = Append(@, "security_type") ],
                                   secuirty_type,
                                   SecurityResult(conn[c].version, secuirty_type))]
    /\ UNCHANGED << listener, screen, call >>

\* rfp.rs:317-330 and main.rs:55-57, ClientInit arrives, ServerInit goes out
\* and the message loop starts
ReadClientInit(c) ==
    /\ conn[c].pc = "read_client_init"
    /\ \E shared \in {0, 1}, eof \in BOOLEAN :
         conn' = [conn EXCEPT ![c] =
            IF eof
                THEN Fail([ @ EXCEPT !.reads = Append(@, "client_init") ], "read client init")
            ELSE [ @ EXCEPT !.reads = Append(@, "client_init"),
                            !.out = @ \o ServerInit(screen.dimensions, DesktopName),
                            !.handshaken = TRUE,
                            !.zlib = NoEncoder,
                            !.pointer_supported = FALSE,
                            !.pc = "read_message" ]]
    /\ UNCHANGED << listener, screen, call >>

\* ------------------------------------------------------------------------
\* main.rs: handle_client, the message loop
\* ------------------------------------------------------------------------

\* main.rs:58, r: what read_message returned
AfterRead(cr, r) ==
    CASE r.res = "none" -> [ cr EXCEPT !.pc = "done", !.result = "ok", !.msg = NoMsg ]
      [] r.res = "err" -> Fail(cr, r.err)
      [] r.res = "msg" ->
            [ cr EXCEPT !.pc = "dispatch", !.msg = r.msg,
                        !.reqs = IF r.msg.kind = "FramebufferUpdateRequest"
                                    /\ ~r.msg.incremental
                                 THEN Append(@, cr.nread) ELSE @ ]

\* main.rs:58 and rfp.rs:333-401, read_message on what the client sends
\* next: the first `cut` bytes of a message, the stream ending there unless
\* the message is whole
ReadMessage(c) ==
    /\ conn[c].pc = "read_message"
    /\ conn[c].nread < MaxMsgs
    /\ \E wire \in ClientWires(screen) :
         \E cut \in 0..Len(wire) :
            conn' = [conn EXCEPT ![c] =
                AfterRead([ @ EXCEPT
                              !.nread = @ + 1,
                              !.in_tag = IF cut = 0 THEN -1 ELSE wire[1],
                              !.in_eof = IF cut = 0 THEN "boundary"
                                         ELSE IF cut < Len(wire) THEN "inside" ELSE "" ],
                          read_message(SubSeq(wire, 1, cut)))]
    /\ UNCHANGED << listener, screen, call >>

\* main.rs:60-65, r: what set_pixel_format returned
OnSetPixelFormat(cr, r) ==
    IF r.ok THEN [ cr EXCEPT !.format = r.format ] ELSE Fail(cr, "no true color")

\* main.rs:66-75, zlib: the encoder after the arm; the task's encodings are
\* those of the SetEncodings it handled last
OnSetEncodings(cr, zlib, encodings) ==
    [ cr EXCEPT !.zlib = zlib,
                !.encodings = encodings,
                !.encoders = IF zlib.id > @ THEN zlib.id ELSE @,
                !.pointer_supported = SetEncodings_pointer(@, encodings) ]

\* A variant that goes back to the head of the loop with the frame unwritten
OnFramebufferUpdateRequest_unwritten(cr, r) ==
    CASE r.res \in {"skip", "ok"} -> cr
      [] r.res = "err" -> Fail(cr, "unimplemented")
      [] r.res = "panic" -> [ cr EXCEPT !.pc = "done", !.result = "panic" ]

\* main.rs:76-92, r: what the rendering gave
OnFramebufferUpdateRequest(cr, r) ==
    CASE r.res = "skip" -> cr
      [] r.res = "ok" ->
            [ cr EXCEPT !.zlib = r.zlib,
                        !.out = @ \o write_frame(r.rects),
                        !.frames = Append(@, [ req |-> cr.nread, encoder |-> r.zlib.id,
                                               rects |-> r.rects ]) ]
      [] r.res = "err" -> Fail(cr, "unimplemented")
      [] r.res = "panic" -> [ cr EXCEPT !.pc = "done", !.result = "panic" ]

\* main.rs:59-96, the arm of the match for msg; cr: the task back at the
\* head of the loop
Dispatch(cr, msg, scr, checked) ==
    CASE msg.kind = "SetPixelFormat" ->
            OnSetPixelFormat(cr, set_pixel_format(cr.format, msg.format))
      [] msg.kind = "SetEncodings" ->
            OnSetEncodings(cr, SetEncodings_zlib(cr.zlib, msg.encodings, cr.encoders),
                           msg.encodings)
      [] msg.kind = "FramebufferUpdateRequest" ->
            OnFramebufferUpdateRequest(
                cr, Render(scr, cr.format, cr.zlib, cr.pointer_supported,
                           msg.incremental, checked))
      [] OTHER -> cr

\* main.rs:59-96, the arm of the match for the message read.  The build
\* decides whether a shift overflow panics: both builds are followed.
HandleMessage(c) ==
    /\ conn[c].pc = "dispatch"
    /\ \E checked \in BOOLEAN :
         conn' = [conn EXCEPT ![c] =
                    Dispatch([ @ EXCEPT !.pc = "read_message" ], conn[c].msg, screen, checked)]
    /\ UNCHANGED << listener, screen, call >>

\* A read fails with an error that is not the end of the stream (the peer
\* resets the connection): `?` returns it from handle_client
TransportError(c) ==
    /\ conn[c].pc \in {"read_version", "read_security_type", "read_client_init", "read_message"}
    /\ conn' = [conn EXCEPT ![c] = Fail(@, "transport")]
    /\ UNCHANGED << listener, screen, call >>

\* ------------------------------------------------------------------------
\* Specification: the server and one client connection
\* ------------------------------------------------------------------------

Task(c) ==
    \/ HandshakeStart(c)
    \/ ReadVersion(c)
    \/ ReadSecurityType(c)
    \/ ReadClientInit(c)
    \/ ReadMessage(c)
    \/ HandleMessage(c)
    \/ TransportError(c)

Next ==
    \/ Bind
    \/ BindFail
    \/ Accept(1)
    \/ AcceptPeerAddrFail
    \/ AcceptFail
    \/ Task(1)

Spec == Init /\ [][Next]_vars

\* ------------------------------------------------------------------------
\* Specification: the server and several client connections, interleaved.
\* The clients are v3.3 clients that send whole messages: a SetPixelFormat,
\* a SetEncodings with ZRLE and Cursor, or a FramebufferUpdateRequest.
\* ------------------------------------------------------------------------

MultiInput(m) ==
    \/ m.kind = "SetPixelFormat" /\ m.format = RGB565
    \/ m.kind = "SetEncodings" /\ m.encodings = << Zrle, Other(5), Cursor >>
    \/ m.kind = "FramebufferUpdateRequest" /\ ~m.incremental

MultiVersion(c) == ReadVersion(c) /\ conn'[c].version = "V3_3"

MultiClientInit(c) == ReadClientInit(c) /\ conn'[c].handshaken

MultiRead(c) ==
    /\ conn[c].nread < MaxMultiMsgs
    /\ ReadMessage(c)
    /\ conn'[c].pc = "dispatch"
    /\ MultiInput(conn'[c].msg)

NextMulti ==
    \/ Bind
    \/ AcceptFail
    \/ \E c \in Conns :
          \/ Accept(c)
          \/ HandshakeStart(c)
          \/ MultiVersion(c)
          \/ MultiClientInit(c)
          \/ MultiRead(c)
          \/ HandleMessage(c)

SpecMulti == Init /\ [][NextMulti]_vars

\* ------------------------------------------------------------------------
\* Specification: the functions of rfp.rs and screen.rs applied on their
\* own, each to every argument of a bounded set
\* ------------------------------------------------------------------------

\* The function op applied to arg has returned ret
Called(op, arg, ret) == [ arg |-> arg, op |-> op, ret |-> ret ]

\* The codes of encodings: the three named ones, their neighbours and the
\* ends of i32
EncodingCodes ==
    { -2147483647 - 1, -240, -239, -238, -1, 0, 1, 5, 15, 16, 17, 239, 2147483647 }

\* The values of the enum Encoding
EncodingValues == { Raw, Zrle, Cursor } \cup { Other(n) : n \in EncodingCodes }

\* rfp.rs:187-196 then rfp.rs:176-185, i32::from(x) and Encoding::from of it
EncodeDecode ==
    /\ call.op = "none"
    /\ UNCHANGED << listener, screen, conn >>
    /\ \E x \in EncodingValues :
        call' = Called("encode_decode", x,
                          [ code |-> Encoding_into(x), value |-> Encoding_from(Encoding_into(x)) ])

\* rfp.rs:176-185 then rfp.rs:187-196, Encoding::from(c) and i32::from of it
DecodeEncode ==
    /\ call.op = "none"
    /\ UNCHANGED << listener, screen, conn >>
    /\ \E c \in EncodingCodes :
        call' = Called("decode_encode", c,
                          [ code |-> Encoding_into(Encoding_from(c)), value |-> Encoding_from(c) ])

\* The pointer pictures of width w and height h whose alphas are 128 or 129:
\* row 1 has the alphas `alphas`, every other row the opposite ones
Sprite(w, h, alphas) ==
    [ height |-> h,
      pixels |-> [k \in 1..(w * h) |->
                    << 10, 20, 30,
                       IF (k - 1) \div w = 0 THEN alphas[((k - 1) % w) + 1]
                       ELSE 257 - alphas[((k - 1) % w) + 1] >>],
      width |-> w ]

\* screen.rs:25-84, Screen::create with a pointer picture
CreatePointer ==
    /\ call.op = "none"
    /\ UNCHANGED << listener, screen, conn >>
    /\ \E w \in 1..MaxSpriteWidth, h \in 1..MaxSpriteHeight :
         \E alphas \in [1..w -> {128, 129}] :
            call' = Called("create", Sprite(w, h, alphas),
                              Screen_create(BackgroundPicture, TRUE, Sprite(w, h, alphas)).pointer)

\* A background picture of the given size, its pixels all different
Picture(w, h) ==
    [ height |-> h,
      pixels |-> [k \in 1..(w * h) |-> << k % 256, (k \div 256) % 256, 200 >>],
      width |-> w ]

\* The sizes of the backgrounds drawn: one tile, whole and partial tiles side
\* by side, one above the other, and both
ZrleScreens == { << 1, 1 >>, << 64, 1 >>, << 65, 1 >>, << 2, 65 >>, << 130, 2 >>, << 100, 70 >> }

\* screen.rs:119-145, Screen::draw_zrle with a new encoder, under RGB888
DrawZrle ==
    /\ call.op = "none"
    /\ UNCHANGED << listener, screen, conn >>
    /\ \E size \in ZrleScreens :
        call' = Called("draw_zrle", Picture(size[1], size[2]),
                          draw_zrle(Screen_create(Picture(size[1], size[2]), FALSE, NoImage),
                                    PIXEL_FOMRAT_RGB888, FALSE, ZlibEncoder_new(1)))

\* The 16 bytes of a pixel format as clients send them: valid and invalid
\* bits-per-pixel and depths, flags of 0 and more, padding that is not zero
CallBpps == { 0, 7, 8, 9, 16, 24, 32, 33, 64, 255 }
CallDepths == { 0, 8, 9, 16, 17, 24, 25, 32, 33, 255 }
CallMaxes == { << 255, 255, 255 >>, << 31, 63, 31 >>, << 65535, 65535, 65535 >> }
CallShifts == { << 16, 8, 0 >>, << 11, 5, 0 >>, << 0, 0, 0 >>, << 32, 8, 0 >>, << 0, 8, 255 >> }

CallFormatBytes ==
    { << bpp, depth, big, tc >> \o U16BE(max[1]) \o U16BE(max[2]) \o U16BE(max[3])
            \o shift \o << 0, 0, 9 >> :
        bpp \in CallBpps, depth \in CallDepths, big \in {0, 2}, tc \in {0, 1},
        max \in CallMaxes, shift \in CallShifts }

\* The formats that PixelFormat::read_from returns for them
CallFormats == { ReadFields(b) : b \in { x \in CallFormatBytes : read_from(x).ok } }

\* A task in the message loop, about to read its first message
TaskInLoop ==
    [ NewConn EXCEPT !.pc = "read_message", !.handshaken = TRUE, !.nread = 1,
                     !.in_tag = 0 ]

\* rfp.rs:61-84, PixelFormat::read_from on 16 bytes, and main.rs:58 with
\* rfp.rs:340-347, the same bytes read as a SetPixelFormat by a task
ReadFrom ==
    /\ call.op = "none"
    /\ UNCHANGED << listener, screen, conn >>
    /\ \E b \in CallFormatBytes :
        call' = Called("read_from", b,
                          [ parsed |-> read_from(b),
                            task |-> AfterRead(TaskInLoop, read_message(<< 0, 0, 0, 0 >> \o b)) ])

\* rfp.rs:426-447 then rfp.rs:61-84, PixelFormat::encode and read_from of it
EncodeFormat ==
    /\ call.op = "none"
    /\ UNCHANGED << listener, screen, conn >>
    /\ \E f \in CallFormats :
        call' = Called("encode", f,
                          [ bytes |-> PixelFormat_encode(f),
                            parsed |-> read_from(PixelFormat_encode(f)) ])

\* The pixels encoded: the background's, and one white pixel
CallPixels == { BackgroundPicture.pixels, << << 255, 255, 255 >> >> }

\* rfp.rs:90-149, encode_compressed_pixels and encode_pixels on the same
\* pixels, in a build with or without overflow checks
EncodePixels ==
    /\ call.op = "none"
    /\ UNCHANGED << listener, screen, conn >>
    /\ \E f \in CallFormats, pixels \in CallPixels, checked \in BOOLEAN :
        call' = Called("encode_pixels", [ checked |-> checked, format |-> f, pixels |-> pixels ],
                          [ compressed |-> encode_compressed_pixels(f, pixels, checked),
                            plain |-> encode_pixels(f, pixels, checked) ])

NextCalls ==
    \/ EncodeDecode
    \/ DecodeEncode
    \/ CreatePointer
    \/ DrawZrle
    \/ ReadFrom
    \/ EncodeFormat
    \/ EncodePixels

\* The server before it binds, its Screen made with a pointer
InitCalls ==
    /\ listener = "start"
    /\ screen = Screen_create(BackgroundPicture, TRUE, PointerPicture)
    /\ conn = [c \in Conns |-> NewConn]
    /\ call = NoCall

SpecCalls == InitCalls /\ [][NextCalls]_vars

\* ------------------------------------------------------------------------
\* Properties
\* ------------------------------------------------------------------------

Last(seq) == seq[Len(seq)]

\* The step runs the arm of the match for the message of connection c
Handles(c) ==
    /\ conn[c].pc = "dispatch"
    /\ conn'[c].pc # "dispatch"
    /\ conn'[c].result # "cancelled"

NonIncrementalRequest(m) == m.kind = "FramebufferUpdateRequest" /\ ~m.incremental
IncrementalRequest(m) == m.kind = "FramebufferUpdateRequest" /\ m.incremental

\* The step writes nothing on connection c
WritesNothing(c) ==
    /\ conn'[c].out = conn[c].out
    /\ conn'[c].frames = conn[c].frames

\* The outputs of draw_zrle on connection c, one after the other
ZrleOutputs(c) ==
    Flatten([k \in 1..Len(conn[c].frames) |->
                IF conn[c].frames[k].rects[1].encoding = Zrle
                THEN conn[c].frames[k].rects[1].buf ELSE << >>])

\* C1: on a connection the zlib encoder is made once, by the first
\* SetEncodings with ZRLE, and never replaced: every ZRLE payload comes from
\* the same encoder and the payloads, concatenated, are one zlib stream.
C1_OneZlibStream ==
    \A c \in Conns :
        /\ conn[c].encoders <= 1
        /\ \A i, j \in 1..Len(conn[c].frames) :
              (conn[c].frames[i].encoder # 0 /\ conn[c].frames[j].encoder # 0)
                  => conn[c].frames[i].encoder = conn[c].frames[j].encoder
        /\ ZrleOutputs(c) # << >> => Inflate(ZrleOutputs(c)).ok

\* C2: a v3.7 or v3.8 client that chooses a security type other than 1 makes
\* the handshake fail: nothing more is written for v3.7, u32be(1), u32be(len)
\* and "Unsupported security type" for v3.8; ClientInit is never read,
\* ServerInit never written, the message loop never entered.
C2_RejectedSecurityTypeFails ==
    \A c \in Conns :
        (conn[c].version \in {"V3_7", "V3_8"} /\ conn[c].secuirty_type \notin {0, 1})
            => /\ conn[c].pc = "done"
               /\ conn[c].result = "err"
               /\ ~conn[c].handshaken
               /\ ~Contains(conn[c].reads, "client_init")
               /\ conn[c].nread = 0
               /\ conn[c].out =
                    VERSION_3_8 \o << 1, 1 >>
                        \o (IF conn[c].version = "V3_8"
                            THEN << 0, 0, 0, 1, 0, 0, 0, 25 >>
                                    \o ERROR_REASON_SECURITY_TYPE_UNSUPPORTED
                            ELSE << >>)

\* The rectangles of a FramebufferUpdate as C3 describes them, for the state
\* of connection c before the request is handled
ExpectedRects(c, rects) ==
    /\ Len(rects) = IF conn[c].pointer_supported /\ screen.pointer.some THEN 2 ELSE 1
    /\ rects[1].position = << 0, 0 >>
    /\ rects[1].size = screen.dimensions
    /\ rects[1].encoding = IF conn[c].zlib.some THEN Zrle ELSE Raw
    /\ Len(rects) = 2 =>
          /\ rects[2].encoding = Cursor
          /\ rects[2].size = << screen.pointer.image.width, screen.pointer.image.height >>
          /\ rects[2].position = << screen.pointer.image.width \div 2,
                                    screen.pointer.image.height \div 2 >>

\* The step writes exactly one FramebufferUpdate on connection c, of the
\* rectangles C3 describes
WritesOneFrame(c) ==
    /\ Len(conn'[c].frames) = Len(conn[c].frames) + 1
    /\ ExpectedRects(c, Last(conn'[c].frames).rects)
    /\ conn'[c].out = conn[c].out \o write_frame(Last(conn'[c].frames).rects)
    /\ SubSeq(conn'[c].out, Len(conn[c].out) + 1, Len(conn[c].out) + 4)
          = << 0, 0, 0, Len(Last(conn'[c].frames).rects) >>

\* The encoder exists and the format is one the compressed encoding rejects
UnsupportedCompressed(c) ==
    conn[c].zlib.some /\ conn[c].format.bits_per_pixel = 32 /\ conn[c].format.depth < 24

\* The step ends connection c with the given result and without a byte written
EndsUnanswered(c, result) ==
    /\ conn'[c].pc = "done"
    /\ conn'[c].result = result
    /\ WritesNothing(c)

C4_IncrementalWritesNothing ==
    [][\A c \in Conns :
          (Handles(c) /\ IncrementalRequest(conn[c].msg))
              => (WritesNothing(c) /\ conn'[c].pc = "read_message")]_vars

C4_Witness ==
    \E c \in Conns :
        /\ conn[c].pc = "read_message"
        /\ IncrementalRequest(conn[c].msg)
        /\ conn[c].zlib.some
        /\ conn[c].pointer_supported
        /\ conn[c].format = RGB565

\* The screen rectangle's payload unpacked: the data of a ZRLE rectangle's
\* zlib chunk, which carries the stream's header only when it is the first
\* of its encoder
ZrleData(buf) ==
    IF IsPrefix(ZLIB_HEADER, buf) THEN Inflate(buf) ELSE Inflate(ZLIB_HEADER \o buf)

\* The tiles of the screen as ZRLE sends them under format f: the
\* subencoding byte 0, then the tile's pixels as CPIXELs
ZrleTilesUnder(f) ==
    Flatten([k \in 1..Len(Tiles(screen)) |->
                << 0 >> \o encode_compressed_pixels(
                              f, TilePixels(screen.background, Tiles(screen)[k]), FALSE).bytes])

\* The rectangles carry the screen's pixels packed under format f
PackedUnder(f, rects) ==
    /\ rects[1].encoding = Raw =>
          rects[1].buf = encode_pixels(f, screen.background.pixels, FALSE).bytes
    /\ rects[1].encoding = Zrle =>
          /\ ZrleData(rects[1].buf).ok
          /\ ZrleData(rects[1].buf).data = ZrleTilesUnder(f)
    /\ Len(rects) = 2 =>
          rects[2].buf = encode_pixels(f, screen.pointer.image.pixels, FALSE).bytes
                            \o screen.pointer.bitmask

\* C5: a connection starts with the RGB888 format; its format changes only
\* when a SetPixelFormat is handled, to the format of that message; and the
\* rectangles of every FramebufferUpdate are packed under the format the
\* connection has when the request is handled.
C5_PackedUnderLatestFormat ==
    /\ \A c \in Conns : conn[c].format = PIXEL_FOMRAT_RGB888
    /\ [][\A c \in Conns :
            /\ (Handles(c) /\ conn[c].msg.kind = "SetPixelFormat" /\ conn'[c].pc # "done")
                  => conn'[c].format = conn[c].msg.format
            /\ conn'[c].format # conn[c].format
                  => (Handles(c) /\ conn[c].msg.kind = "SetPixelFormat")
            /\ Len(conn'[c].frames) = Len(conn[c].frames) + 1
                  => PackedUnder(conn[c].format, Last(conn'[c].frames).rects)]_vars

C5_Witness ==
    \E c \in Conns :
        /\ conn[c].pc = "read_message"
        /\ NonIncrementalRequest(conn[c].msg)
        /\ conn[c].format = RGB565
        /\ Len(conn[c].frames) = 2
        /\ conn[c].frames[1].req = 1
        /\ conn[c].frames[2].req = 3

\* C6: the k-th FramebufferUpdate written answers the k-th non-incremental
\* FramebufferUpdateRequest read, and when the task reads the next message
\* every such request read so far has its FramebufferUpdate written.
C6_ServedInOrder ==
    \A c \in Conns :
        /\ Len(conn[c].frames) <= Len(conn[c].reqs)
        /\ Len(conn[c].reqs) <= Len(conn[c].frames) + 1
        /\ \A k \in 1..Len(conn[c].frames) : conn[c].frames[k].req = conn[c].reqs[k]
        /\ conn[c].pc = "read_message" => Len(conn[c].frames) = Len(conn[c].reqs)

C6_Witness ==
    \E c \in Conns :
        /\ conn[c].pc = "read_message"
        /\ conn[c].reqs = << 1, 3 >>
        /\ Len(conn[c].frames) = 2
        /\ conn[c].nread = 4

\* What the server writes before ServerInit to a client of the given version
\* that chose security type 1
HandshakeGreeting(version) ==
    << 82, 70, 66, 32, 48, 48, 51, 46, 48, 48, 56, 10 >>
        \o (IF version = "V3_3" THEN << 0, 0, 0, 1 >> ELSE << 1, 1 >>)
        \o (IF version = "V3_8" THEN << 0, 0, 0, 0 >> ELSE << >>)

\* C7: to a client of a recognised version that (v3.7, v3.8) chose security
\* type 1 the server writes "RFB 003.008\n", then u32be(1) (v3.3) or 1, 1
\* (v3.7, v3.8), then u32be(0) for v3.8 only, and, once the shared flag is
\* read, ServerInit; nothing else before the first message; no security type
\* is read from a v3.3 client.
C7_HandshakeOutput ==
    \A c \in Conns :
        (conn[c].version \in {"V3_3", "V3_7", "V3_8"} /\ conn[c].secuirty_type = 1)
            => /\ conn[c].version = "V3_3" => ~Contains(conn[c].reads, "security_type")
               /\ ~conn[c].handshaken => conn[c].out = HandshakeGreeting(conn[c].version)
               /\ conn[c].handshaken =>
                    /\ Last(conn[c].reads) = "client_init"
                    /\ IsPrefix(HandshakeGreeting(conn[c].version)
                                  \o ServerInit(screen.dimensions, DesktopName),
                                conn[c].out)
                    /\ conn[c].frames = << >> =>
                          conn[c].out = HandshakeGreeting(conn[c].version)
                                          \o U16BE(screen.background.width)
                                          \o U16BE(screen.background.height)
                                          \o << 32, 24, 0, 1, 0, 255, 0, 255, 0, 255,
                                                16, 8, 0, 0, 0, 0 >>
                                          \o << 0, 0, 0, 11 >> \o DesktopName

C7_Witness ==
    \E c \in Conns :
        /\ conn[c].handshaken
        /\ conn[c].version = "V3_7"
        /\ conn[c].secuirty_type = 1
        /\ conn[c].pc = "read_message"
        /\ conn[c].nread = 0

\* C8, as claimed: to a client of an unrecognised version the server writes
\* the byte 0, u32be(27) and the 27 bytes of "Unsupported protocol version",
\* and the handshake fails.
C8_UnsupportedVersionLength27 ==
    \A c \in Conns :
        conn[c].err = "unknown version"
            => /\ conn[c].out = VERSION_3_8 \o << 0 >> \o << 0, 0, 0, 27 >>
                                    \o ERROR_REASON_PROTOCOL_VERSION_UNSUPPORTED
               /\ conn[c].pc = "done"
               /\ ~conn[c].handshaken

\* C8, amended: to a client of an unrecognised version the server writes the
\* byte 0, u32be(28) and the 28 bytes of "Unsupported protocol version", and
\* the handshake fails.
C8_UnsupportedVersionLength28 ==
    \A c \in Conns :
        conn[c].err = "unknown version"
            => /\ conn[c].out = VERSION_3_8 \o << 0 >> \o << 0, 0, 0, 28 >>
                                    \o ERROR_REASON_PROTOCOL_VERSION_UNSUPPORTED
               /\ conn[c].pc = "done"
               /\ conn[c].result = "err"
               /\ ~conn[c].handshaken

C8_Witness ==
    \E c \in Conns : conn[c].err = "unknown version" /\ conn[c].pc = "done"

\* C9: a stream that ends before a tag ends the connection with success; a
\* stream that ends inside a message, or a tag not in {0,2,3,4,5,6}, ends it
\* with an error; and no byte is written once the connection has ended.
C9_EndOfStream ==
    [][\A c \in Conns :
          /\ (conn[c].pc = "read_message" /\ conn'[c].nread = conn[c].nread + 1)
                => /\ conn'[c].in_eof = "boundary"
                        => (conn'[c].pc = "done" /\ conn'[c].result = "ok")
                   /\ conn'[c].in_eof = "inside"
                        => (conn'[c].pc = "done" /\ conn'[c].result = "err")
                   /\ (conn'[c].in_eof # "boundary" /\ conn'[c].in_tag \notin {0, 2, 3, 4, 5, 6})
                        => (conn'[c].pc = "done" /\ conn'[c].result = "err")
                   /\ conn'[c].out = conn[c].out
          /\ conn[c].pc = "done"
                => (conn'[c].pc = "done" /\ conn'[c].out = conn[c].out)]_vars

C9_Witness ==
    \E c \in Conns :
        /\ conn[c].pc = "done"
        /\ conn[c].result = "err"
        /\ conn[c].in_eof = "inside"
        /\ conn[c].in_tag = 2
        /\ Len(conn[c].frames) = 1

\* C10: the accept loop never terminates: once the listener is bound the
\* server accepts connections for ever.
C10_AcceptLoopNeverTerminates ==
    [][listener = "listening" => listener' = "listening"]_vars

\* The step appends a FramebufferUpdate to those written on connection c
AppendsFrame(c) == Len(conn'[c].frames) = Len(conn[c].frames) + 1

\* C11: with connections interleaved, the format, encoder and
\* pointer_supported of a connection change only when that connection handles
\* a message of its own, and such a step changes no other connection; every
\* FramebufferUpdate of a connection has the rectangles and the packing that
\* the connection's own state calls for; a connection accepted starts with
\* RGB888, no encoder and pointer_supported unset; the Screen never changes.
C11_ConnectionsIsolated ==
    [][/\ screen' = screen
       /\ \A b \in Conns :
            /\ (conn[b].pc = "idle" /\ conn'[b].pc # "idle")
                  => /\ conn'[b].format = PIXEL_FOMRAT_RGB888
                     /\ ~conn'[b].zlib.some
                     /\ ~conn'[b].pointer_supported
            /\ (\/ conn'[b].format # conn[b].format
                \/ conn'[b].zlib # conn[b].zlib
                \/ conn'[b].pointer_supported # conn[b].pointer_supported)
                  => Handles(b)
            /\ Handles(b) => \A a \in Conns \ {b} : conn'[a] = conn[a]
            /\ AppendsFrame(b)
                  => /\ ExpectedRects(b, Last(conn'[b].frames).rects)
                     /\ PackedUnder(conn[b].format, Last(conn'[b].frames).rects)]_vars

C11_Witness ==
    /\ conn[1].pc = "read_message"
    /\ conn[1].format = RGB565
    /\ conn[1].zlib.some
    /\ Len(conn[1].frames) = 1
    /\ conn[1].frames[1].rects[1].encoding = Zrle
    /\ conn[2].pc = "read_message"
    /\ conn[2].format = PIXEL_FOMRAT_RGB888
    /\ ~conn[2].zlib.some
    /\ Len(conn[2].frames) = 1
    /\ conn[2].frames[1].rects[1].encoding = Raw

\* C12: handling a SetPixelFormat whose true-colour flag is unset leaves the
\* connection's format as it was and ends the connection with an error,
\* nothing written then or later; handling one whose flag is set installs its
\* format and the connection goes on.
C12_TrueColourRequired ==
    [][\A c \in Conns :
          /\ (Handles(c) /\ conn[c].msg.kind = "SetPixelFormat")
                => IF conn[c].msg.format.true_color_flag
                   THEN /\ conn'[c].format = conn[c].msg.format
                        /\ conn'[c].pc = "read_message"
                   ELSE /\ conn'[c].format = conn[c].format
                        /\ EndsUnanswered(c, "err")
          /\ conn[c].pc = "done" => (conn'[c].pc = "done" /\ WritesNothing(c))]_vars

C12_Witness ==
    \E c \in Conns :
        /\ conn[c].pc = "done"
        /\ conn[c].err = "no true color"
        /\ conn[c].format = RGB565
        /\ Len(conn[c].frames) = 1

\* C13: for every value x of Encoding, Other(n) of any n included, the code
\* of x decodes back to x.
C13_EncodeDecode ==
    call.op = "encode_decode" => call.ret.value = call.arg

\* C13, amended: for every value x of Encoding other than Other(0),
\* Other(16) and Other(-239), the code of x decodes back to x; those three
\* decode to Raw, Zrle and Cursor.
C13_EncodeDecodeCanonical ==
    call.op = "encode_decode"
        => /\ call.arg \notin { Other(0), Other(16), Other(-239) }
                => call.ret.value = call.arg
           /\ call.arg = Other(0) => call.ret.value = Raw
           /\ call.arg = Other(16) => call.ret.value = Zrle
           /\ call.arg = Other(-239) => call.ret.value = Cursor

C13_Witness ==
    /\ call.op = "encode_decode"
    /\ call.arg = Other(-2147483647 - 1)
    /\ call.ret.value = Other(-2147483647 - 1)

\* C14: for every 32-bit signed c the value decoded from c encodes back to
\* c, and Raw, Zrle and Cursor encode to 0, 16 and -239.
C14_DecodeEncode ==
    /\ call.op = "decode_encode" => call.ret.code = call.arg
    /\ call.op = "encode_decode"
          => /\ call.arg = Raw => call.ret.code = 0
             /\ call.arg = Zrle => call.ret.code = 16
             /\ call.arg = Cursor => call.ret.code = -239

C14_Witness ==
    /\ call.op = "decode_encode"
    /\ call.arg = -239
    /\ call.ret.value = Cursor
    /\ call.ret.code = -239

\* Bit k of a byte, bit 7 the most significant
BitSet(byte, k) == (byte \div Pow2(k)) % 2 = 1

\* The alpha of pixel i of row y of a pointer picture, both counted from 0
AlphaAt(img, y, i) == img.pixels[y * img.width + i + 1][4]

\* C15: each row of the bitmask of a cursor of width w has ceil(w/8) bytes,
\* pixel i of the row sets bit 7-(i mod 8) of byte i/8 if and only if its
\* alpha is greater than 0x80, and the unused low bits of a partial last
\* byte are zero.
C15_BitmaskLeftAligned ==
    call.op = "create" =>
        /\ Len(call.ret.bitmask) = ((call.arg.width + 7) \div 8) * call.arg.height
        /\ \A y \in 0..(call.arg.height - 1) :
              /\ \A i \in 0..(call.arg.width - 1) :
                    BitSet(call.ret.bitmask[y * ((call.arg.width + 7) \div 8) + (i \div 8) + 1],
                           7 - (i % 8))
                        <=> AlphaAt(call.arg, y, i) > 128
              /\ call.arg.width % 8 > 0 =>
                    call.ret.bitmask[(y + 1) * ((call.arg.width + 7) \div 8)]
                        % Pow2(8 - (call.arg.width % 8)) = 0

\* The CPIXELs, under RGB888, of the w x h pixels of img from (x, y) on, row
\* by row
TileCPixels(img, x, y, w, h) ==
    Flatten([j \in 1..(w * h) |->
                << img.pixels[(y + ((j - 1) \div w)) * img.width + x + ((j - 1) % w) + 1][3],
                   img.pixels[(y + ((j - 1) \div w)) * img.width + x + ((j - 1) % w) + 1][2],
                   img.pixels[(y + ((j - 1) \div w)) * img.width + x + ((j - 1) % w) + 1][1] >>])

\* What C16 has draw_zrle feed the encoder: the tiles of 64 x 64 pixels, cut
\* at the right and bottom edges, from left to right and then from top to
\* bottom, each the byte 0 and its pixels
ExpectedTiles(img) ==
    Flatten([k \in 1..(((img.width + 63) \div 64) * ((img.height + 63) \div 64)) |->
                << 0 >> \o TileCPixels(
                    img,
                    64 * ((k - 1) % ((img.width + 63) \div 64)),
                    64 * ((k - 1) \div ((img.width + 63) \div 64)),
                    Min(64, img.width - 64 * ((k - 1) % ((img.width + 63) \div 64))),
                    Min(64, img.height - 64 * ((k - 1) \div ((img.width + 63) \div 64))))])

\* C16: draw_zrle feeds the encoder ceil(W/64) * ceil(H/64) tiles in
\* row-major order, the tile at (x, y) being min(64, W-x) wide and
\* min(64, H-y) high: the byte 0, then its width * height pixels.
C16_ZrleTiles ==
    call.op = "draw_zrle" =>
        /\ call.ret.res = "ok"
        /\ Inflate(call.ret.bytes).ok
        /\ Inflate(call.ret.bytes).data = ExpectedTiles(call.arg)
        /\ Len(Tiles(Screen_create(call.arg, FALSE, NoImage)))
              = ((call.arg.width + 63) \div 64) * ((call.arg.height + 63) \div 64)

C16_Witness ==
    /\ call.op = "draw_zrle"
    /\ call.arg.width = 100
    /\ call.arg.height = 70
    /\ Tiles(Screen_create(call.arg, FALSE, NoImage))
          = << << 0, 0, 64, 64 >>, << 64, 0, 36, 64 >>, << 0, 64, 64, 6 >>, << 64, 64, 36, 6 >> >>
    /\ Len(Inflate(call.ret.bytes).data) = 4 + 3 * 100 * 70

\* The 3 bytes per pixel of a CPIXEL: R, G, B if big-endian, else B, G, R
ThreeBytes(f, pixels) ==
    Flatten([i \in 1..Len(pixels) |->
                IF f.big_endian_flag
                THEN << pixels[i][1], pixels[i][2], pixels[i][3] >>
                ELSE << pixels[i][3], pixels[i][2], pixels[i][1] >>])

\* C17: for a true-colour format with bpp = 32 and depth <= 24,
\* encode_compressed_pixels emits 3 bytes per pixel (R,G,B if big-endian,
\* else B,G,R), except that it fails exactly when 16 < depth < 24; for every
\* other true-colour format its outcome is that of encode_pixels.
C17_CompressedPixels ==
    (call.op = "encode_pixels" /\ call.arg.format.true_color_flag) =>
        IF call.arg.format.bits_per_pixel = 32 /\ call.arg.format.depth <= 24
        THEN IF 16 < call.arg.format.depth /\ call.arg.format.depth < 24
             THEN call.ret.compressed.res = "err"
             ELSE /\ call.ret.compressed.res = "ok"
                  /\ call.ret.compressed.bytes = ThreeBytes(call.arg.format, call.arg.pixels)
        ELSE call.ret.compressed = call.ret.plain

\* C18: PixelFormat::read_from fails if and only if bits-per-pixel is not 8,
\* 16 or 32 or depth exceeds bits-per-pixel, whatever the other fields are;
\* an accepted format carries the fields as read; and a task that reads a
\* SetPixelFormat whose format fails to parse ends with an error, having
\* written nothing, while one whose format parses goes on to handle it.
C18_ParseRejection ==
    call.op = "read_from" =>
        /\ call.ret.parsed.ok <=>
                (call.arg[1] \in {8, 16, 32} /\ call.arg[2] <= call.arg[1])
        /\ call.ret.parsed.ok => call.ret.parsed.format = ReadFields(call.arg)
        /\ ~call.ret.parsed.ok =>
                /\ call.ret.task.pc = "done"
                /\ call.ret.task.result = "err"
                /\ call.ret.task.out = << >>
        /\ call.ret.parsed.ok =>
                /\ call.ret.task.pc = "dispatch"
                /\ call.ret.task.msg.kind = "SetPixelFormat"
                /\ call.ret.task.msg.format = call.ret.parsed.format

\* A format of 32 bits per pixel and depth 33 was rejected and dropped the
\* connection
C18_Witness ==
    /\ call.op = "read_from"
    /\ call.arg[1] = 32
    /\ call.arg[2] = 33
    /\ ~call.ret.parsed.ok
    /\ call.ret.task.pc = "done"
    /\ call.ret.task.result = "err"

\* C19: for every PixelFormat that read_from accepts, read_from of its
\* encoding succeeds and gives back the same format, field by field; the
\* encoding is 16 bytes long and its last 3 bytes are zero.
C19_FormatRoundTrip ==
    call.op = "encode" =>
        /\ call.ret.parsed.ok
        /\ \A k \in DOMAIN call.arg : call.ret.parsed.format[k] = call.arg[k]
        /\ DOMAIN call.ret.parsed.format = DOMAIN call.arg
        /\ Len(call.ret.bytes) = 16
        /\ SubSeq(call.ret.bytes, 14, 16) = << 0, 0, 0 >>

\* A big-endian 16-bit format with maxes 31, 63, 31 and shifts 11, 5, 0 was
\* encoded and parsed back
C19_Witness ==
    /\ call.op = "encode"
    /\ call.arg.bits_per_pixel = 16
    /\ call.arg.depth = 16
    /\ call.arg.big_endian_flag
    /\ call.arg.red_max = 31
    /\ call.arg.green_max = 63
    /\ call.arg.red_shift = 11
    /\ call.ret.parsed.ok
    /\ call.ret.parsed.format.green_shift = 5

\* The sum of two 32-bit unsigned words, modulo 2^32
Add32(a, b) ==
    Word((a[1] + b[1] + ((a[2] + b[2]) \div 65536)) % 65536, (a[2] + b[2]) % 65536)

\* (channel * max / 255) << shift as a 32-bit unsigned integer: the bits
\* shifted past bit 31 are lost, all of them when the shift is 32 or more
ScaledChannel(channel, max, shift) ==
    IF shift >= 32 THEN Word(0, 0) ELSE Shl32((channel * max) \div 255, shift)

\* The sum over the three channels of a pixel
PixelSum(f, rgb) ==
    Add32(Add32(ScaledChannel(rgb[1], f.red_max, f.red_shift),
                ScaledChannel(rgb[2], f.green_max, f.green_shift)),
          ScaledChannel(rgb[3], f.blue_max, f.blue_shift))

\* C20: for a true-colour format, encode_pixels succeeds and emits, for
\* each pixel, bpp/8 bytes in the format's endianness holding the sum over
\* the channels of (channel * max / 255) << shift as a 32-bit unsigned
\* integer; for a non-true-colour format it fails and emits nothing.
C20_EncodePixels ==
    call.op = "encode_pixels" =>
        IF call.arg.format.true_color_flag
        THEN /\ call.ret.plain.res = "ok"
             /\ call.ret.plain.bytes =
                    Flatten([i \in 1..Len(call.arg.pixels) |->
                                PixelBytes(call.arg.format,
                                           PixelSum(call.arg.format, call.arg.pixels[i]))])
        ELSE /\ call.ret.plain.res = "err"
             /\ call.ret.plain.bytes = << >>

\* The u16be at b[pos], b[pos + 1]
U16At(b, pos) == u16_from_be_bytes(SubSeq(b, pos, pos + 1))

\* The number of payload bytes of the rectangle record at b[pos], as a
\* reader of the stream finds it under the pixel format f: a ZRLE payload is
\* a u32be length and as many bytes, a Raw payload is one pixel value per
\* pixel, a Cursor payload the pixel values then the bitmask rows
PayloadLen(b, pos, f) ==
    CASE i32_from_be_bytes(SubSeq(b, pos + 8, pos + 11)) = 16 ->
            IF Len(b) < pos + 15 THEN -1
            ELSE 4 + u32_from_be_bytes(SubSeq(b, pos + 12, pos + 15))
      [] i32_from_be_bytes(SubSeq(b, pos + 8, pos + 11)) = 0 ->
            U16At(b, pos + 4) * U16At(b, pos + 6) * (f.bits_per_pixel \div 8)
      [] i32_from_be_bytes(SubSeq(b, pos + 8, pos + 11)) = -239 ->
            U16At(b, pos + 4) * U16At(b, pos + 6) * (f.bits_per_pixel \div 8)
                + ((U16At(b, pos + 4) + 7) \div 8) * U16At(b, pos + 6)
      [] OTHER -> -1

\* The rectangle record at b[pos], its payload without the ZRLE length
RecordAt(b, pos, f) ==
    [ position |-> << U16At(b, pos), U16At(b, pos + 2) >>,
      size |-> << U16At(b, pos + 4), U16At(b, pos + 6) >>,
      code |-> i32_from_be_bytes(SubSeq(b, pos + 8, pos + 11)),
      payload |-> IF i32_from_be_bytes(SubSeq(b, pos + 8, pos + 11)) = 16
                  THEN SubSeq(b, pos + 16, pos + 11 + PayloadLen(b, pos, f))
                  ELSE SubSeq(b, pos + 12, pos + 11 + PayloadLen(b, pos, f)) ]

\* The rectangle records read from b[pos] to the end of b; ok is FALSE when
\* the bytes do not end with a whole record
RECURSIVE ReadRecords(_, _, _)
ReadRecords(b, pos, f) ==
    IF pos = Len(b) + 1 THEN [ ok |-> TRUE, recs |-> << >> ]
    ELSE IF Len(b) < pos + 11 THEN [ ok |-> FALSE, recs |-> << >> ]
    ELSE IF PayloadLen(b, pos, f) < 0 \/ Len(b) < pos + 11 + PayloadLen(b, pos, f)
        THEN [ ok |-> FALSE, recs |-> << >> ]
    ELSE [ ok |-> ReadRecords(b, pos + 12 + PayloadLen(b, pos, f), f).ok,
           recs |-> << RecordAt(b, pos, f) >>
                        \o ReadRecords(b, pos + 12 + PayloadLen(b, pos, f), f).recs ]

\* b is one FramebufferUpdate of the rectangles rects: type 0, a padding
\* byte, the count of the records that follow, and the records
FramedUpdate(b, f, rects) ==
    /\ Len(b) >= 4
    /\ b[1] = 0
    /\ ReadRecords(b, 5, f).ok
    /\ U16At(b, 3) = Len(ReadRecords(b, 5, f).recs)
    /\ Len(rects) = Len(ReadRecords(b, 5, f).recs)
    /\ \A i \in 1..Len(rects) :
          /\ ReadRecords(b, 5, f).recs[i].position = rects[i].position
          /\ ReadRecords(b, 5, f).recs[i].size = rects[i].size
          /\ ReadRecords(b, 5, f).recs[i].code = Encoding_into(rects[i].encoding)
          /\ ReadRecords(b, 5, f).recs[i].payload = rects[i].buf

\* C21: the bytes written for a FramebufferUpdate are u8(0), a padding
\* byte, a u16be count equal to the number of rectangle records that follow,
\* and the records: u16be x, y, w, h, i32be encoding and the payload, a ZRLE
\* payload behind a u32be length equal to the number of zlib bytes that
\* follow, a Raw or Cursor payload with no length.
C21_FrameFraming ==
    [][\A c \in Conns :
          AppendsFrame(c) =>
              FramedUpdate(SubSeq(conn'[c].out, Len(conn[c].out) + 1, Len(conn'[c].out)),
                           conn[c].format, Last(conn'[c].frames).rects)]_vars

\* A FramebufferUpdate of a ZRLE rectangle and a Cursor rectangle was
\* written under a 16-bit format
C21_Witness ==
    \E c \in Conns :
        /\ conn[c].frames # << >>
        /\ Len(Last(conn[c].frames).rects) = 2
        /\ Last(conn[c].frames).rects[1].encoding = Zrle
        /\ Last(conn[c].frames).rects[2].encoding = Cursor
        /\ conn[c].format.bits_per_pixel = 16

\* C22: a FramebufferUpdate holds a ZRLE rectangle only if the SetEncodings
\* the connection handled last listed ZRLE, and a Cursor rectangle only if
\* it listed Cursor; after a SetEncodings that lists only Raw a
\* FramebufferUpdate is a single Raw rectangle.
C22_LatestEncodingsOnly ==
    [][\A c \in Conns :
          AppendsFrame(c) =>
              /\ \A i \in 1..Len(Last(conn'[c].frames).rects) :
                    /\ Last(conn'[c].frames).rects[i].encoding = Zrle
                          => Contains(conn[c].encodings, Zrle)
                    /\ Last(conn'[c].frames).rects[i].encoding = Cursor
                          => Contains(conn[c].encodings, Cursor)
              /\ conn[c].encodings = << Raw >> =>
                    /\ Len(Last(conn'[c].frames).rects) = 1
                    /\ Last(conn'[c].frames).rects[1].encoding = Raw]_vars

\* A channel of maximum max shifted left by shift stays inside 32 bits
FitsPixel(max, shift) ==
    /\ shift < 32
    /\ shift >= 16 => max < Pow2(32 - shift)

\* C23: a pixel format that a connection has accepted (read_from and
\* set_pixel_format both succeeded, or the default) has every channel shift
\* below 32 and every shifted channel inside the 32-bit pixel, and no task
\* ends by an arithmetic overflow.
C23_NoShiftOverflow ==
    \A c \in Conns :
        /\ conn[c].result # "panic"
        /\ \A i \in 1..3 : FitsPixel(rgb_max(conn[c].format)[i], rgb_shift(conn[c].format)[i])

====
